---- MODULE Spec2Model ----
(***************************************************************************)
(* The outgoing transaction pool of the gravity keeper                     *)
(* (module/x/gravity/keeper/pool.go) together with the address and token   *)
(* value types it uses.  Every keeper method is an operator from a store   *)
(* state and its arguments to the state it leaves behind and the values    *)
(* it returns; the actions apply these operators to the variables.  The    *)
(* keeper's own steps are modelled: nothing is rolled back when a method   *)
(* returns an error.                                                       *)
(***************************************************************************)
EXTENDS Integers, Sequences, FiniteSets, TLC

----------------------------------------------------------------------------
\* Bounds of the model.

\* Highest transaction id the id counter may hand out in the model.
MaxTxId == 3

----------------------------------------------------------------------------
\* Value domains.

\* Validated Ethereum addresses of token contracts.  A number stands for the
\* 42 character string; the order of the numbers is the byte order of the
\* strings.
Contracts == {1, 2, 3}

\* Account addresses; 0 is the empty address.
Accounts == {1, 2}
AccAddresses == {0} \cup Accounts

\* An address string as ValidateEthAddress sees it: its length and whether
\* it matches ^0x[0-9a-fA-F]{40}$ (a match has 42 characters).
EthReceivers ==
    { [len |-> 42, hex |-> TRUE, addr |-> 1],
      [len |-> 0,  hex |-> FALSE, addr |-> 0],
      [len |-> 41, hex |-> FALSE, addr |-> 0],
      [len |-> 42, hex |-> FALSE, addr |-> 0] }

ETHContractAddressLen == 42

ValidateEthAddress(address) ==
    IF address.len = 0 THEN "empty"
    ELSE IF address.len # ETHContractAddressLen THEN "wrong length"
    ELSE IF ~address.hex THEN "regex"
    ELSE "nil"

\* EthAddress.ValidateBasic
ValidateBasic(ea) == ValidateEthAddress(ea)

\* A denomination is the prefix of its name and the rest of it.
GravityDenomPrefix == "gravity"

GravityDenom(tokenContract) == [prefix |-> GravityDenomPrefix, body |-> tokenContract]

\* "ufoo", a denomination issued on this chain with an ERC20 representation.
NativeDenom == [prefix |-> "u", body |-> 1]
\* "ubar", a denomination issued on this chain without one.
UnmappedDenom == [prefix |-> "u", body |-> 2]
\* "", which sdk.ValidateDenom rejects.
BadDenom == [prefix |-> "", body |-> 0]

VoucherDenoms == { GravityDenom(c) : c \in Contracts }
Denoms == VoucherDenoms \cup {NativeDenom, UnmappedDenom}

\* The contract deployed for NativeDenom (the cosmos-originated index).
NativeContract == CHOOSE c \in Contracts : \A o \in Contracts : o <= c

\* sdk.Coin.IsValid: a valid denomination and an amount that is not negative.
IsValid(coin) == coin.denom \in Denoms /\ coin.amount >= 0

NoErr == "nil"

\* A GravityDenomToERC20 that gives the same contract for every voucher.
GravityDenomToERC20OneContract(denom) ==
    IF denom.prefix # GravityDenomPrefix
    THEN [err |-> "denom prefix", contract |-> 0]
    ELSE IF denom.body \notin Contracts
    THEN [err |-> "validating ethereum contract address", contract |-> 0]
    ELSE [err |-> NoErr, contract |-> CHOOSE c \in Contracts : \A o \in Contracts : c <= o]

\* GravityDenomToERC20: the contract of a voucher denomination.
GravityDenomToERC20(denom) ==
    IF denom.prefix # GravityDenomPrefix
    THEN [err |-> "denom prefix", contract |-> 0]
    ELSE IF denom.body \notin Contracts
    THEN [err |-> "validating ethereum contract address", contract |-> 0]
    ELSE [err |-> NoErr, contract |-> denom.body]

\* Keeper.DenomToERC20Lookup: (isCosmosOriginated, tokenContract, err).
DenomToERC20Lookup(denom) ==
    LET tc1 == GravityDenomToERC20(denom) IN
    IF tc1.err # NoErr
    THEN IF denom = NativeDenom
         THEN [isCosmosOriginated |-> TRUE, contract |-> NativeContract, err |-> NoErr]
         ELSE [isCosmosOriginated |-> FALSE, contract |-> 0, err |-> "denom not a gravity voucher coin"]
    ELSE [isCosmosOriginated |-> FALSE, contract |-> tc1.contract, err |-> NoErr]

\* Keeper.ERC20ToDenomLookup: (isCosmosOriginated, denom).
ERC20ToDenomLookup(tokenContract) ==
    IF tokenContract = NativeContract
    THEN [isCosmosOriginated |-> TRUE, denom |-> NativeDenom]
    ELSE [isCosmosOriginated |-> FALSE, denom |-> GravityDenom(tokenContract)]

\* A NewSDKIntERC20Token that drops the amount.
NewSDKIntERC20TokenNoAmount(amount, contract) == [Contract |-> contract, Amount |-> 0]

\* NewSDKIntERC20Token
NewSDKIntERC20Token(amount, contract) == [Amount |-> amount, Contract |-> contract]

\* ERC20Token.GravityCoin: the voucher coin of the token's contract.
GravityCoin(e) == [denom |-> GravityDenom(e.Contract), amount |-> e.Amount]

----------------------------------------------------------------------------
\* The bank keeper (Ledger).  fault names the call that the bank refuses for
\* a reason of its own; a transfer out of an account fails on insufficient
\* funds.

\* A SendCoinsFromAccountToModule that does not look at the balance.
SendCoinsFromAccountToModuleUnfunded(st, sender, coin) ==
    [st |-> [st EXCEPT !.balances[sender][coin.denom] = @ - coin.amount,
                       !.module[coin.denom] = @ + coin.amount],
     err |-> NoErr]

\* bankKeeper.SendCoinsFromAccountToModule
SendCoinsFromAccountToModule(st, sender, coin) ==
    IF st.balances[sender][coin.denom] < coin.amount
    THEN [st |-> st, err |-> "insufficient funds"]
    ELSE [st |-> [st EXCEPT !.balances[sender][coin.denom] = @ - coin.amount,
                            !.module[coin.denom] = @ + coin.amount],
          err |-> NoErr]

\* A BurnCoins that the bank never refuses.
BurnCoinsUnrefused(st, coin, fault) ==
    [st |-> [st EXCEPT !.module[coin.denom] = @ - coin.amount,
                       !.supply[coin.denom] = @ - coin.amount],
     err |-> NoErr]

\* bankKeeper.BurnCoins
BurnCoins(st, coin, fault) ==
    IF fault = "burn"
    THEN [st |-> st, err |-> "bank error"]
    ELSE IF st.module[coin.denom] < coin.amount
    THEN [st |-> st, err |-> "insufficient funds"]
    ELSE [st |-> [st EXCEPT !.module[coin.denom] = @ - coin.amount,
                            !.supply[coin.denom] = @ - coin.amount],
          err |-> NoErr]

\* A MintCoins that credits the module without raising the supply.
MintCoinsUnsupplied(st, coin, fault) ==
    IF fault = "mint"
    THEN [st |-> st, err |-> "bank error"]
    ELSE [st |-> [st EXCEPT !.module[coin.denom] = @ + coin.amount],
          err |-> NoErr]

\* bankKeeper.MintCoins
MintCoins(st, coin, fault) ==
    IF fault = "mint"
    THEN [st |-> st, err |-> "bank error"]
    ELSE [st |-> [st EXCEPT !.module[coin.denom] = @ + coin.amount,
                            !.supply[coin.denom] = @ + coin.amount],
          err |-> NoErr]

\* bankKeeper.SendCoinsFromModuleToAccount
SendCoinsFromModuleToAccount(st, recipient, coin, fault) ==
    IF fault = "unlock"
    THEN [st |-> st, err |-> "bank error"]
    ELSE IF st.module[coin.denom] < coin.amount
    THEN [st |-> st, err |-> "insufficient funds"]
    ELSE [st |-> [st EXCEPT !.module[coin.denom] = @ - coin.amount,
                            !.balances[recipient][coin.denom] = @ + coin.amount],
          err |-> NoErr]

----------------------------------------------------------------------------
\* The store: the pool index and the id counter.

\* types.GetOutgoingTxPoolKey: the bytes of the fee contract, of the fee
\* amount and of the id, in that order; keys compare as these triples do.
GetOutgoingTxPoolKey(fee, id) == <<fee.Contract, fee.Amount, id>>

\* types.OutgoingTXPoolKey, the prefix of every pool key.
OutgoingTXPoolKey == <<>>

\* types.GetOutgoingTxPoolContractPrefix
GetOutgoingTxPoolContractPrefix(contractAddress) == <<contractAddress>>

\* bytes.Compare(k1, k2) < 0 on two pool keys.
KeyLess(k1, k2) ==
    \/ k1[1] < k2[1]
    \/ k1[1] = k2[1] /\ k1[2] < k2[2]
    \/ k1[1] = k2[1] /\ k1[2] = k2[2] /\ k1[3] < k2[3]

\* prefixRange: the keys of the store that begin with prefixKey.
prefixRange(store, prefixKey) ==
    { k \in DOMAIN store : SubSeq(k, 1, Len(prefixKey)) = prefixKey }

\* Iterator in place of ReverseIterator: from the least to the greatest.
RECURSIVE ForwardIterator(_)
ForwardIterator(keys) ==
    IF keys = {} THEN <<>>
    ELSE LET low == CHOOSE k \in keys : \A o \in keys \ {k} : KeyLess(k, o)
         IN <<low>> \o ForwardIterator(keys \ {low})

\* ReverseIterator: the keys of a range from the greatest to the least.
RECURSIVE ReverseIterator(_)
ReverseIterator(keys) ==
    IF keys = {} THEN <<>>
    ELSE LET top == CHOOSE k \in keys : \A o \in keys \ {k} : KeyLess(o, k)
         IN <<top>> \o ReverseIterator(keys \ {top})

\* The function literals handed to IterateUnbatchedTransactions.  Each takes
\* the values of the variables it captures (acc) and a transaction, and gives
\* their new values with the flag it returns (stop).

\* The literal of GetUnbatchedTxById: captures r (<<>> for nil) and txID.
GetUnbatchedTxByIdFunc(txID, r, tx) ==
    IF tx.Id = txID
    THEN [acc |-> <<tx>>, stop |-> TRUE]
    ELSE [acc |-> r, stop |-> FALSE]

\* The literal of collectUnbatchedTransactions: captures out.
collectUnbatchedTransactionsFunc(out, tx) ==
    [acc |-> Append(out, tx), stop |-> FALSE]

\* The literal of GetBatchFeeByTokenType: captures batchFee.TotalFees,
\* txCount, tokenContractAddr and maxElements; it panics on a fee of another
\* contract.
GetBatchFeeByTokenTypeFunc(tokenContractAddr, maxElements, acc, tx) ==
    LET fee == tx.Erc20Fee IN
    IF fee.Contract # tokenContractAddr
    THEN [acc |-> [acc EXCEPT !.panic = TRUE], stop |-> TRUE]
    ELSE [acc |-> [acc EXCEPT !.TotalFees = @ + fee.Amount, !.txCount = @ + 1],
          stop |-> acc.txCount + 1 = maxElements]

\* A Go map read: the zero value when the key is absent.
MapGet(m, key) == IF key \in DOMAIN m THEN m[key] ELSE 0

\* A Go map write.
MapSet(m, key, val) == [k \in DOMAIN m \cup {key} |-> IF k = key THEN val ELSE m[k]]

\* addFeeToMap without the increment of txCountMap.
addFeeToMapUncounted(fee, maps) ==
    [batchFeesMap |-> MapSet(maps.batchFeesMap, fee.Contract,
                             MapGet(maps.batchFeesMap, fee.Contract) + fee.Amount),
     txCountMap |-> maps.txCountMap]

\* addFeeToMap: maps is the pair of batchFeesMap and txCountMap.
addFeeToMap(fee, maps) ==
    LET counted == MapSet(maps.txCountMap, fee.Contract,
                          MapGet(maps.txCountMap, fee.Contract) + 1)
    IN IF fee.Contract \in DOMAIN maps.batchFeesMap
       THEN [batchFeesMap |-> MapSet(maps.batchFeesMap, fee.Contract,
                                  maps.batchFeesMap[fee.Contract] + fee.Amount),
             txCountMap |-> counted]
       ELSE [batchFeesMap |-> MapSet(maps.batchFeesMap, fee.Contract, fee.Amount),
             txCountMap |-> counted]

\* The literal of createBatchFees: captures batchFeesMap, txCountMap (maps)
\* and maxElements.
createBatchFeesFunc(maxElements, maps, tx) ==
    LET fee == tx.Erc20Fee IN
    IF MapGet(maps.txCountMap, fee.Contract) < maxElements
    THEN [acc |-> addFeeToMap(fee, maps), stop |-> FALSE]
    ELSE [acc |-> maps, stop |-> FALSE]

\* The call cb(iter.Key(), &transact).  cb is a closure: fn names the
\* function literal, the other fields are the arguments of its caller that
\* it captures.
Call(cb, acc, transact) ==
    CASE cb.fn = "GetUnbatchedTxById" ->
             GetUnbatchedTxByIdFunc(cb.txID, acc, transact)
      [] cb.fn = "collectUnbatchedTransactions" ->
             collectUnbatchedTransactionsFunc(acc, transact)
      [] cb.fn = "GetBatchFeeByTokenType" ->
             GetBatchFeeByTokenTypeFunc(cb.tokenContractAddr, cb.maxElements,
                                        acc, transact)
      [] cb.fn = "createBatchFees" ->
             createBatchFeesFunc(cb.maxElements, acc, transact)

\* IterateUnbatchedTransactions without the break: the loop goes on after
\* the callback answered true.
IterateUnbatchedTransactionsUnbroken(store, prefixKey, cb, acc0) ==
    LET iter == ReverseIterator(prefixRange(store, prefixKey))
        RECURSIVE loop(_, _, _)
        loop(i, acc, visited) ==
            IF i > Len(iter) THEN [acc |-> acc, visited |-> visited]
            ELSE LET transact == store[iter[i]] IN
                 CHOOSE end \in
                     { loop(i + 1, r.acc, Append(visited, transact)) :
                       r \in {Call(cb, acc, transact)} } : TRUE
    IN loop(1, acc0, <<>>)

\* IterateUnbatchedTransactions.  acc0 holds the captured variables before
\* the loop.  The result is their values at the end and the transactions
\* the callback was invoked on, in order.  r is the one result of the one
\* call the loop makes per transaction.
IterateUnbatchedTransactions(store, prefixKey, cb, acc0) ==
    LET iter == ReverseIterator(prefixRange(store, prefixKey))
        RECURSIVE loop(_, _, _)
        loop(i, acc, visited) ==
            IF i > Len(iter) THEN [acc |-> acc, visited |-> visited]
            ELSE LET transact == store[iter[i]] IN
                 CHOOSE end \in
                     { IF r.stop
                       THEN [acc |-> r.acc, visited |-> Append(visited, transact)]
                       ELSE loop(i + 1, r.acc, Append(visited, transact)) :
                       r \in {Call(cb, acc, transact)} } : TRUE
    IN loop(1, acc0, <<>>)

\* IterateUnbatchedTransactionsByContract
IterateUnbatchedTransactionsByContract(store, contractAddress, cb, acc0) ==
    IterateUnbatchedTransactions(store, GetOutgoingTxPoolContractPrefix(contractAddress),
                                 cb, acc0)

\* An addUnbatchedTX that builds the key from the token instead of the fee.
addUnbatchedTXKeyedByToken(st, val) ==
    LET idxKey == GetOutgoingTxPoolKey(val.Erc20Token, val.Id) IN
    IF idxKey \in DOMAIN st.store
    THEN [st |-> st, err |-> "ErrDuplicate: transaction already in pool"]
    ELSE [st |-> [st EXCEPT !.store = [k \in DOMAIN st.store \cup {idxKey} |->
                                          IF k = idxKey THEN val ELSE st.store[k]]],
          err |-> NoErr]

\* addUnbatchedTX
addUnbatchedTX(st, val) ==
    LET idxKey == GetOutgoingTxPoolKey(val.Erc20Fee, val.Id) IN
    IF idxKey \in DOMAIN st.store
    THEN [st |-> st, err |-> "ErrDuplicate: transaction already in pool"]
    ELSE [st |-> [st EXCEPT !.store = [k \in DOMAIN st.store \cup {idxKey} |->
                                          IF k = idxKey THEN val ELSE st.store[k]]],
          err |-> NoErr]

\* A removeUnbatchedTX that deletes every record of the fee, whatever its
\* id.
removeUnbatchedTXOfFee(st, fee, txID) ==
    LET idxKey == GetOutgoingTxPoolKey(fee, txID) IN
    IF idxKey \notin DOMAIN st.store
    THEN [st |-> st, err |-> "ErrUnknown: pool transaction"]
    ELSE [st |-> [st EXCEPT !.store =
                     [k \in { j \in DOMAIN st.store : st.store[j].Erc20Fee # fee } |->
                          st.store[k]]],
          err |-> NoErr]

\* A removeUnbatchedTX that reports the removal and leaves the record.
removeUnbatchedTXKeeping(st, fee, txID) ==
    LET idxKey == GetOutgoingTxPoolKey(fee, txID) IN
    IF idxKey \notin DOMAIN st.store
    THEN [st |-> st, err |-> "ErrUnknown: pool transaction"]
    ELSE [st |-> st, err |-> NoErr]

\* removeUnbatchedTX
removeUnbatchedTX(st, fee, txID) ==
    LET idxKey == GetOutgoingTxPoolKey(fee, txID) IN
    IF idxKey \notin DOMAIN st.store
    THEN [st |-> st, err |-> "ErrUnknown: pool transaction"]
    ELSE [st |-> [st EXCEPT !.store = [k \in DOMAIN st.store \ {idxKey} |-> st.store[k]]],
          err |-> NoErr]

\* GetUnbatchedTxByFeeAndId; tx is <<>> for nil.
GetUnbatchedTxByFeeAndId(st, fee, txID) ==
    LET key == GetOutgoingTxPoolKey(fee, txID) IN
    IF key \notin DOMAIN st.store
    THEN [tx |-> <<>>, err |-> "ErrUnknown: pool transaction"]
    ELSE [tx |-> <<st.store[key]>>, err |-> NoErr]

\* The scan of GetUnbatchedTxById: r is <<>> for nil.
ScanById(st, txID) ==
    IterateUnbatchedTransactions(st.store, OutgoingTXPoolKey,
        [fn |-> "GetUnbatchedTxById", txID |-> txID], <<>>)

\* GetUnbatchedTxById that takes the first transaction the iteration visits,
\* whatever its id.
GetUnbatchedTxByIdFirstVisited(st, txID) ==
    LET r == IterateUnbatchedTransactions(st.store, OutgoingTXPoolKey,
                 [fn |-> "collectUnbatchedTransactions"], <<>>).acc
    IN IF r = <<>>
       THEN [tx |-> <<>>, err |-> "ErrUnknown: pool transaction"]
       ELSE [tx |-> <<r[1]>>, err |-> NoErr]

\* GetUnbatchedTxById
GetUnbatchedTxById(st, txID) ==
    LET r == ScanById(st, txID).acc IN
    IF r = <<>>
    THEN [tx |-> <<>>, err |-> "ErrUnknown: pool transaction"]
    ELSE [tx |-> r, err |-> NoErr]

\* collectUnbatchedTransactions
collectUnbatchedTransactions(st, prefixKey) ==
    IterateUnbatchedTransactions(st.store, prefixKey,
        [fn |-> "collectUnbatchedTransactions"], <<>>).acc

\* GetUnbatchedTransactionsByContract
GetUnbatchedTransactionsByContract(st, contractAddress) ==
    collectUnbatchedTransactions(st, GetOutgoingTxPoolContractPrefix(contractAddress))

\* GetUnbatchedTransactions
GetUnbatchedTransactions(st) == collectUnbatchedTransactions(st, OutgoingTXPoolKey)

\* autoIncrementID that stores the id it returns instead of the next one.
autoIncrementIDStoresSame(st) ==
    LET id == IF st.lastTXPoolID = <<>> THEN 1 ELSE st.lastTXPoolID[1] IN
    [st |-> [st EXCEPT !.lastTXPoolID = <<id>>], id |-> id]

\* autoIncrementID without the store.Set of the next value.
autoIncrementIDNotPersisted(st) ==
    [st |-> st, id |-> IF st.lastTXPoolID = <<>> THEN 1 ELSE st.lastTXPoolID[1]]

\* The value autoIncrementID reads: 1 when the counter is not in the store.
ReadID(st) == IF st.lastTXPoolID = <<>> THEN 1 ELSE st.lastTXPoolID[1]

\* autoIncrementID.  The model never lets the counter pass MaxTxId, so id + 1
\* is the uint64 sum.
autoIncrementID(st) ==
    LET id == ReadID(st) IN
    [st |-> [st EXCEPT !.lastTXPoolID = <<id + 1>>], id |-> id]

----------------------------------------------------------------------------
\* The two operations that change the pool.  Each returns the state it
\* leaves behind, its return values and the bank and store calls it made.

Panic == "panic"

\* sdk.Coin.Add on two coins of one denomination.
CoinAdd(a, b) == [denom |-> a.denom, amount |-> a.amount + b.amount]

\* sdk.AccAddress.Empty
Empty(address) == address = 0

\* A comparison that takes every requester for the sender.
EqualsAnyone(txSender, sender) == TRUE

\* sdk.AccAddress.Equals
Equals(txSender, sender) == txSender = sender

\* The argument check without the comparison of the two denominations.
AddArgumentsInvalidDenomsUncompared(ctxIsZero, sender, ethReceiver, amount, fee) ==
    \/ ctxIsZero
    \/ Empty(sender)
    \/ ValidateBasic(ethReceiver) # NoErr
    \/ ~IsValid(amount)
    \/ ~IsValid(fee)

\* The argument check of AddToOutgoingPool.
AddArgumentsInvalid(ctxIsZero, sender, ethReceiver, amount, fee) ==
    \/ ctxIsZero
    \/ Empty(sender)
    \/ ValidateBasic(ethReceiver) # NoErr
    \/ ~IsValid(amount)
    \/ ~IsValid(fee)
    \/ fee.denom # amount.denom

\* AddToOutgoingPool
AddToOutgoingPool(st, ctxIsZero, sender, ethReceiver, amount, fee, fault) ==
    IF AddArgumentsInvalid(ctxIsZero, sender, ethReceiver, amount, fee)
    THEN [st |-> st, id |-> 0, err |-> "ErrInvalid: arguments", calls |-> <<>>]
    ELSE
    LET totalAmount == CoinAdd(amount, fee)
        lookup == DenomToERC20Lookup(totalAmount.denom)
    IN
    IF lookup.err # NoErr
    THEN [st |-> st, id |-> 0, err |-> lookup.err, calls |-> <<>>]
    ELSE
    LET contractAddr == lookup.contract
        locked == SendCoinsFromAccountToModule(st, sender, totalAmount)
    IN
    IF locked.err # NoErr
    THEN [st |-> locked.st, id |-> 0, err |-> locked.err, calls |-> <<"Lock">>]
    ELSE
    LET burned == IF lookup.isCosmosOriginated
                  THEN [st |-> locked.st, err |-> NoErr]
                  ELSE BurnCoins(locked.st, totalAmount, fault)
        custody == IF lookup.isCosmosOriginated THEN <<"Lock">> ELSE <<"Lock", "Burn">>
    IN
    IF burned.err # NoErr
    THEN [st |-> burned.st, id |-> 0, err |-> Panic, calls |-> custody]
    ELSE
    LET next == autoIncrementID(burned.st)
        nextID == next.id
        erc20Fee == NewSDKIntERC20Token(fee.amount, contractAddr)
        outgoing == [Id |-> nextID,
                     Sender |-> sender,
                     DestAddress |-> ethReceiver,
                     Erc20Token |-> NewSDKIntERC20Token(amount.amount, contractAddr),
                     Erc20Fee |-> erc20Fee]
        \* the error of addUnbatchedTX is dropped
        added == addUnbatchedTX(next.st, outgoing)
    IN [st |-> added.st, id |-> nextID, err |-> NoErr,
        calls |-> custody \o <<"AllocId", "Insert">>]

\* RemoveFromOutgoingPoolAndRefund
RemoveFromOutgoingPoolAndRefund(st, ctxIsZero, txId, sender, fault) ==
    IF ctxIsZero \/ txId < 1 \/ Empty(sender)
    THEN [st |-> st, err |-> "ErrInvalid: arguments", calls |-> <<>>]
    ELSE
    LET found == GetUnbatchedTxById(st, txId) IN
    IF found.err # NoErr
    THEN [st |-> st, err |-> found.err, calls |-> <<>>]
    ELSE
    LET tx == found.tx[1] IN
    \* sdk.AccAddressFromBech32 rejects the empty string
    IF tx.Sender = 0
    THEN [st |-> st, err |-> Panic, calls |-> <<>>]
    ELSE IF ~Equals(tx.Sender, sender)
    THEN [st |-> st, err |-> "ErrInvalid: sender did not send id", calls |-> <<>>]
    ELSE IF tx.Erc20Fee.Contract # tx.Erc20Token.Contract
    THEN [st |-> st, err |-> "ErrInvalid: inconsistent tokens to cancel", calls |-> <<>>]
    ELSE
    LET removed == removeUnbatchedTX(st, tx.Erc20Fee, txId) IN
    IF removed.err # NoErr
    THEN [st |-> removed.st, err |-> "ErrInvalid: not in unbatched index", calls |-> <<>>]
    ELSE
    LET oldTx == GetUnbatchedTxByFeeAndId(removed.st, tx.Erc20Fee, tx.Id) IN
    IF oldTx.tx # <<>> \/ oldTx.err = NoErr
    THEN [st |-> removed.st, err |-> "ErrInvalid: not fully removed from the pool",
          calls |-> <<"Remove">>]
    ELSE
    LET gravityCoin == GravityCoin(tx.Erc20Token)
        totalToRefund == [gravityCoin EXCEPT !.amount = @ + tx.Erc20Fee.Amount]
        isCosmosOriginated == ERC20ToDenomLookup(tx.Erc20Token.Contract).isCosmosOriginated
    IN
    IF isCosmosOriginated
    THEN LET sent == SendCoinsFromModuleToAccount(removed.st, sender, totalToRefund, fault) IN
         [st |-> sent.st, err |-> sent.err, calls |-> <<"Remove", "Unlock">>]
    ELSE LET minted == MintCoins(removed.st, totalToRefund, fault) IN
         IF minted.err # NoErr
         THEN [st |-> minted.st, err |-> "mint vouchers coins", calls |-> <<"Remove", "Mint">>]
         ELSE LET sent == SendCoinsFromModuleToAccount(minted.st, sender, totalToRefund, fault) IN
              [st |-> sent.st,
               err |-> IF sent.err # NoErr THEN "transfer vouchers" ELSE NoErr,
               calls |-> <<"Remove", "Mint", "Unlock">>]

----------------------------------------------------------------------------
\* The fee queries.

\* GetBatchFeeByTokenType
GetBatchFeeByTokenType(st, tokenContractAddr, maxElements) ==
    LET r == IterateUnbatchedTransactions(st.store,
                 GetOutgoingTxPoolContractPrefix(tokenContractAddr),
                 [fn |-> "GetBatchFeeByTokenType",
                  tokenContractAddr |-> tokenContractAddr,
                  maxElements |-> maxElements],
                 [TotalFees |-> 0, txCount |-> 0, panic |-> FALSE]).acc
    IN [Token |-> tokenContractAddr, TotalFees |-> r.TotalFees,
        err |-> IF r.panic THEN Panic ELSE NoErr]

\* createBatchFees: the map from contract to the total of its counted fees.
createBatchFees(st, maxElements) ==
    IterateUnbatchedTransactions(st.store, OutgoingTXPoolKey,
        [fn |-> "createBatchFees", maxElements |-> maxElements],
        [batchFeesMap |-> <<>>, txCountMap |-> <<>>]).acc.batchFeesMap

\* The orders in which a range over a Go map may visit the keys in keys.
RECURSIVE MapOrders(_)
MapOrders(keys) ==
    IF keys = {} THEN {<<>>}
    ELSE UNION { { <<k>> \o rest : rest \in MapOrders(keys \ {k}) } : k \in keys }

\* sort.Slice with the comparison of GetAllBatchFees: batchFees[i].Token less
\* than batchFees[j].Token.  An insertion of each element before the first
\* one it is less than.
RECURSIVE InsertByToken(_, _)
InsertByToken(sorted, batchFee) ==
    IF sorted = <<>> THEN <<batchFee>>
    ELSE IF batchFee.Token < Head(sorted).Token THEN <<batchFee>> \o sorted
    ELSE <<Head(sorted)>> \o InsertByToken(Tail(sorted), batchFee)

\* The slice left in the order of the range over the map.
SortSliceOmitted(batchFees) == batchFees

RECURSIVE SortSlice(_)
SortSlice(batchFees) ==
    IF batchFees = <<>> THEN <<>>
    ELSE InsertByToken(SortSlice(SubSeq(batchFees, 1, Len(batchFees) - 1)),
                       batchFees[Len(batchFees)])

\* GetAllBatchFees, with the order in which the range visits the map.
GetAllBatchFees(st, maxElements, order) ==
    LET batchFeesMap == createBatchFees(st, maxElements)
        batchFees == [i \in 1..Len(order) |->
                         [Token |-> order[i], TotalFees |-> batchFeesMap[order[i]]]]
    IN SortSlice(batchFees)

----------------------------------------------------------------------------
\* The state: the keeper's store, the bank, and what the last call returned.

VARIABLES
    store,          \* the pool index: pool key -> OutgoingTransferTx
    lastTXPoolID,   \* the value under KeyLastTXPoolID, <<>> when absent
    balances,       \* bank balance of each account in each denomination
    module,         \* bank balance of the gravity module account
    supply,         \* total supply of each denomination
    issued,         \* the ids returned by the successful AddToOutgoingPool calls
    last,           \* the last call: its name, error, returned id, the bank and
                    \* store calls it made, and what a query returned
    aborted         \* the enclosing transaction was abandoned

vars == <<store, lastTXPoolID, balances, module, supply, issued, last, aborted>>

\* The state the keeper methods work on.
St == [store |-> store, lastTXPoolID |-> lastTXPoolID,
       balances |-> balances, module |-> module, supply |-> supply]

EmptyStore == [k \in {} |-> <<>>]

\* Balances before any transfer was submitted.
GenesisBalances ==
    [a \in Accounts |-> [d \in Denoms |->
        IF a = 1 /\ d = GravityDenom(1) THEN 5
        ELSE IF a = 1 /\ d = GravityDenom(2) THEN 2
        ELSE IF a = 1 /\ d = NativeDenom THEN 2
        ELSE IF a = 2 /\ d = GravityDenom(1) THEN 2
        ELSE 0]]

RECURSIVE SumOver(_, _)
SumOver(f, S) ==
    IF S = {} THEN 0
    ELSE LET x == CHOOSE y \in S : TRUE IN f[x] + SumOver(f, S \ {x})

\* An empty pool, no counter, and nothing in the module's custody.
Init ==
    /\ store = EmptyStore
    /\ lastTXPoolID = <<>>
    /\ balances = GenesisBalances
    /\ module = [d \in Denoms |-> 0]
    /\ supply = [d \in Denoms |-> SumOver([a \in Accounts |-> GenesisBalances[a][d]], Accounts)]
    /\ issued = <<>>
    /\ last = [op |-> "init", err |-> NoErr, id |-> 0, calls |-> <<>>, out |-> <<>>]
    /\ aborted = FALSE

Coin(denom, amount) == [denom |-> denom, amount |-> amount]

GoodReceiver == CHOOSE r \in EthReceivers : ValidateBasic(r) = NoErr

\* Requests that pass the argument check of AddToOutgoingPool.
ValidRequests ==
    { [ctxIsZero |-> FALSE, sender |-> s, ethReceiver |-> GoodReceiver,
       amount |-> Coin(d, 1), fee |-> Coin(d, f), fault |-> x] :
      s \in Accounts, d \in Denoms, f \in {1, 2}, x \in {"none", "burn"} }

\* Requests built from every choice of sound and defective arguments, and
\* the requests whose only defect is the receiver.
DefectiveRequests ==
    { [ctxIsZero |-> z, sender |-> s, ethReceiver |-> r,
       amount |-> a, fee |-> f, fault |-> "none"] :
      z \in BOOLEAN, s \in {0, 1}, r \in {GoodReceiver, [len |-> 0, hex |-> FALSE, addr |-> 0]},
      a \in {Coin(GravityDenom(1), 1), Coin(GravityDenom(1), -1), Coin(BadDenom, 1)},
      f \in {Coin(GravityDenom(1), 1), Coin(GravityDenom(1), -1), Coin(NativeDenom, 1)} }
    \cup
    { [ctxIsZero |-> FALSE, sender |-> 1, ethReceiver |-> r,
       amount |-> Coin(GravityDenom(1), 1), fee |-> Coin(GravityDenom(1), 1),
       fault |-> "none"] : r \in EthReceivers }

\* Arguments of a cancel: every id and requester with every bank fault, and
\* with a zero context.
CancelArgs ==
    { [ctxIsZero |-> FALSE, txId |-> i, sender |-> s, fault |-> x] :
      i \in 0..(MaxTxId + 1), s \in AccAddresses, x \in {"none", "mint", "unlock"} }
    \cup
    { [ctxIsZero |-> TRUE, txId |-> i, sender |-> s, fault |-> "none"] :
      i \in 0..(MaxTxId + 1), s \in AccAddresses }

Requests == ValidRequests \cup DefectiveRequests

\* Transaction ids a caller may name: none, every id the model can issue
\* and one beyond.
TxIds == 0..(MaxTxId + 1)

\* Values of maxElements: none, and up to more than the pool can hold.
MaxElements == 0..(MaxTxId + 1)

\* A panic, or an error returned after the store or the bank was changed,
\* abandons the enclosing transaction: no later call sees the state.
Abandons(r) == r.err = Panic \/ (r.err # NoErr /\ r.st # St)

Running == ~aborted

SetStore(st) ==
    /\ store' = st.store
    /\ lastTXPoolID' = st.lastTXPoolID
    /\ balances' = st.balances
    /\ module' = st.module
    /\ supply' = st.supply

\* A call of AddToOutgoingPool.
Submit(req) ==
    /\ Running
    /\ ReadID(St) <= MaxTxId
    /\ LET r == AddToOutgoingPool(St, req.ctxIsZero, req.sender, req.ethReceiver,
                                  req.amount, req.fee, req.fault)
       IN /\ SetStore(r.st)
          /\ issued' = IF r.err = NoErr THEN Append(issued, r.id) ELSE issued
          /\ last' = [op |-> "submit", err |-> r.err, id |-> r.id,
                      calls |-> r.calls, out |-> <<>>]
          /\ aborted' = Abandons(r)

\* A call of RemoveFromOutgoingPoolAndRefund.
Cancel(ctxIsZero, txId, sender, fault) ==
    /\ Running
    /\ LET r == RemoveFromOutgoingPoolAndRefund(St, ctxIsZero, txId, sender, fault)
       IN /\ SetStore(r.st)
          /\ last' = [op |-> "cancel", err |-> r.err, id |-> 0,
                      calls |-> r.calls, out |-> <<>>]
          /\ aborted' = Abandons(r)
    /\ UNCHANGED issued

\* The batch builder takes a transaction out of the pool.
BatchRemove(key) ==
    /\ Running
    /\ key \in DOMAIN store
    /\ LET r == removeUnbatchedTX(St, store[key].Erc20Fee, store[key].Id)
       IN /\ SetStore(r.st)
          /\ last' = [op |-> "batch", err |-> r.err, id |-> 0,
                      calls |-> <<>>, out |-> <<>>]
    /\ UNCHANGED <<issued, aborted>>

Ids(txs) == [i \in 1..Len(txs) |-> txs[i].Id]

\* The queries.  last.out keeps what the call returned (of a transaction,
\* its id).

\* A lookup by id that takes the record it finds out of the pool.
QueryByIdTaking(txID) ==
    /\ Running
    /\ LET r == GetUnbatchedTxById(St, txID)
       IN /\ last' = [op |-> "byId", err |-> r.err, id |-> 0, calls |-> <<>>,
                      out |-> Ids(r.tx)]
          /\ store' = [k \in { j \in DOMAIN store : <<store[j]>> # r.tx } |-> store[k]]
    /\ UNCHANGED <<lastTXPoolID, balances, module, supply, issued, aborted>>

\* GetUnbatchedTxById
QueryById(txID) ==
    /\ Running
    /\ LET r == GetUnbatchedTxById(St, txID)
       IN last' = [op |-> "byId", err |-> r.err, id |-> 0, calls |-> <<>>,
                   out |-> Ids(r.tx)]
    /\ UNCHANGED <<store, lastTXPoolID, balances, module, supply, issued, aborted>>

QueryByFeeAndId(fee, txID) ==
    /\ Running
    /\ LET r == GetUnbatchedTxByFeeAndId(St, fee, txID)
       IN last' = [op |-> "byFeeAndId", err |-> r.err, id |-> 0, calls |-> <<>>,
                   out |-> Ids(r.tx)]
    /\ UNCHANGED <<store, lastTXPoolID, balances, module, supply, issued, aborted>>

QueryByContract(contract) ==
    /\ Running
    /\ last' = [op |-> "allByContract", err |-> NoErr, id |-> 0, calls |-> <<>>,
                out |-> Ids(GetUnbatchedTransactionsByContract(St, contract))]
    /\ UNCHANGED <<store, lastTXPoolID, balances, module, supply, issued, aborted>>

\* IterateUnbatchedTransactionsByContract with a callback that stops at the
\* transaction of id txID; last.out keeps the ids it was invoked on.
QueryIterate(contract, txID) ==
    /\ Running
    /\ LET r == IterateUnbatchedTransactionsByContract(store, contract,
                    [fn |-> "GetUnbatchedTxById", txID |-> txID], <<>>)
       IN last' = [op |-> "iterate", err |-> NoErr, id |-> 0, calls |-> <<>>,
                   out |-> Ids(r.visited)]
    /\ UNCHANGED <<store, lastTXPoolID, balances, module, supply, issued, aborted>>

QueryAll ==
    /\ Running
    /\ last' = [op |-> "all", err |-> NoErr, id |-> 0, calls |-> <<>>,
                out |-> Ids(GetUnbatchedTransactions(St))]
    /\ UNCHANGED <<store, lastTXPoolID, balances, module, supply, issued, aborted>>

QueryBatchFee(contract, maxElements) ==
    /\ Running
    /\ LET r == GetBatchFeeByTokenType(St, contract, maxElements)
       IN last' = [op |-> "batchFee", err |-> r.err, id |-> 0, calls |-> <<>>,
                   out |-> <<r.Token, r.TotalFees>>]
    /\ UNCHANGED <<store, lastTXPoolID, balances, module, supply, issued, aborted>>

QueryAllBatchFees(maxElements) ==
    /\ Running
    /\ \E order \in MapOrders(DOMAIN createBatchFees(St, maxElements)) :
           last' = [op |-> "allBatchFees", err |-> NoErr, id |-> 0, calls |-> <<>>,
                    out |-> GetAllBatchFees(St, maxElements, order)]
    /\ UNCHANGED <<store, lastTXPoolID, balances, module, supply, issued, aborted>>

\* The calls that change the pool, with every argument of the model.
Next ==
    \/ \E req \in Requests : Submit(req)
    \/ \E a \in CancelArgs : Cancel(a.ctxIsZero, a.txId, a.sender, a.fault)
    \/ \E key \in DOMAIN store : BatchRemove(key)

Spec == Init /\ [][Next]_vars

\* The store after the id counter has wrapped around.  autoIncrementID adds
\* 1 to a uint64: after the id 2^64 - 1 the counter holds 0, while the
\* transaction submitted first, with id 1, may still be pending.
Genesis ==
    [store |-> EmptyStore, lastTXPoolID |-> <<>>, balances |-> GenesisBalances,
     module |-> [d \in Denoms |-> 0],
     supply |-> [d \in Denoms |->
                    SumOver([a \in Accounts |-> GenesisBalances[a][d]], Accounts)]]

InitWrapped ==
    LET first == AddToOutgoingPool(Genesis, FALSE, 1, GoodReceiver,
                                   Coin(GravityDenom(1), 1), Coin(GravityDenom(1), 1),
                                   "none").st
    IN /\ store = first.store
       /\ lastTXPoolID = <<0>>
       /\ balances = first.balances
       /\ module = first.module
       /\ supply = first.supply
       /\ issued = <<>>
       /\ last = [op |-> "init", err |-> NoErr, id |-> 0, calls |-> <<>>, out |-> <<>>]
       /\ aborted = FALSE

SpecWrapped == InitWrapped /\ [][Next]_vars

\* Submissions and cancellations only: no batch takes a transaction out of
\* the pool.
NextSubmitCancel ==
    \/ \E req \in Requests : Submit(req)
    \/ \E a \in CancelArgs : Cancel(a.ctxIsZero, a.txId, a.sender, a.fault)

SpecSubmitCancel == Init /\ [][NextSubmitCancel]_vars

\* The queries, on the pools that submissions and cancellations by either
\* account build.
PoolRequests == { req \in ValidRequests : req.fault = "none" }

NextQuery ==
    \/ \E req \in PoolRequests : Submit(req)
    \/ \E txId \in 1..MaxTxId, s \in Accounts : Cancel(FALSE, txId, s, "none")
    \/ \E txID \in TxIds : QueryById(txID)
    \/ \E c \in Contracts, f \in {1, 2}, txID \in TxIds :
          QueryByFeeAndId(NewSDKIntERC20Token(f, c), txID)
    \/ \E c \in Contracts : QueryByContract(c)
    \/ \E c \in Contracts, txID \in TxIds : QueryIterate(c, txID)
    \/ QueryAll
    \/ \E c \in Contracts, n \in MaxElements : QueryBatchFee(c, n)
    \/ \E n \in MaxElements : QueryAllBatchFees(n)

SpecQuery == Init /\ [][NextQuery]_vars

----------------------------------------------------------------------------
\* ERC20Token.Add, on its own.

\* The width of uint64 in the model: the 64 bits of the code, scaled down.
Uint64Bits == 3

\* math.MaxUint64
MaxUint64 == 2^Uint64Bits - 1

\* Contract strings a token may carry: two addresses and two strings that
\* are none.
TokenContracts ==
    { [len |-> 42, hex |-> TRUE, addr |-> c] : c \in {1, 2} } \cup
    { [len |-> 0, hex |-> FALSE, addr |-> 0], [len |-> 42, hex |-> FALSE, addr |-> 0] }

\* Amounts (sdk.Int, not negative): small ones, the highest uint64 and the
\* values around it.
TokenAmounts == {0, 1, MaxUint64 - 1, MaxUint64, MaxUint64 + 1}

\* The ERC20Token values given to Add.
Tokens == [Contract : TokenContracts, Amount : TokenAmounts]

\* NewEthAddress
NewEthAddress(address) ==
    LET err == ValidateEthAddress(address) IN
    IF err # NoErr
    THEN [addr |-> <<>>, err |-> "invalid input address"]
    ELSE [addr |-> <<address>>, err |-> NoErr]

\* sdk.Int.IsUint64
IsUint64(i) == i >= 0 /\ i <= MaxUint64

\* sdk.Int.Uint64 on a value that IsUint64
Uint64(i) == i % (MaxUint64 + 1)

\* NewERC20Token
NewERC20Token(amount, contract) == [Amount |-> amount, Contract |-> contract]

\* ERC20Token.Add; token is <<>> when it panics.
Add(e, o) ==
    LET eContract == NewEthAddress(e.Contract)
        oContract == NewEthAddress(o.Contract)
    IN
    IF eContract.err # NoErr
    THEN [token |-> <<>>, panic |-> "invalid parent contract address"]
    ELSE IF oContract.err # NoErr
    THEN [token |-> <<>>, panic |-> "invalid argument contract address"]
    ELSE IF eContract.addr[1] # oContract.addr[1]
    THEN [token |-> <<>>, panic |-> "inconsistent contract addresses"]
    ELSE LET sum == e.Amount + o.Amount IN
         IF ~IsUint64(sum)
         THEN [token |-> <<>>, panic |-> "invalid amount"]
         ELSE [token |-> <<NewERC20Token(Uint64(sum), eContract.addr[1])>>,
               panic |-> NoErr]

\* A call e.Add(o): last.out keeps the two tokens and what came back.
TokenAdd(e, o) ==
    /\ LET r == Add(e, o)
       IN last' = [op |-> "Add", err |-> r.panic, id |-> 0, calls |-> <<>>,
                   out |-> <<e, o, r.token>>]
    /\ UNCHANGED <<store, lastTXPoolID, balances, module, supply, issued, aborted>>

NextAdd == \E e, o \in Tokens : TokenAdd(e, o)

\* Add applied to every pair of tokens of the model.
SpecAdd == Init /\ [][NextAdd]_vars

----------------------------------------------------------------------------
\* Notions the properties are stated in.

ErrInvalidArguments == "ErrInvalid: arguments"
ErrUnknown == "ErrUnknown: pool transaction"
ErrDuplicate == "ErrDuplicate: transaction already in pool"
ErrNotSender == "ErrInvalid: sender did not send id"

\* The transactions in the pool.
Pending == { store[k] : k \in DOMAIN store }
PendingOf(contract) == { tx \in Pending : tx.Erc20Fee.Contract = contract }

Range(seq) == { seq[i] : i \in 1..Len(seq) }

Min(a, b) == IF a < b THEN a ELSE b

\* tx comes before other in fee priority.
Before(tx, other) ==
    \/ tx.Erc20Fee.Amount > other.Erc20Fee.Amount
    \/ tx.Erc20Fee.Amount = other.Erc20Fee.Amount /\ tx.Id > other.Id

\* The sum of the fees of the n transactions of txs first in fee priority.
RECURSIVE TopFees(_, _)
TopFees(txs, n) ==
    IF n = 0 \/ txs = {} THEN 0
    ELSE LET first == CHOOSE tx \in txs : \A o \in txs \ {tx} : Before(tx, o)
         IN first.Erc20Fee.Amount + TopFees(txs \ {first}, n - 1)

\* The bank as the keeper's state st has it.
SameBank(st) == st.balances = balances /\ st.module = module /\ st.supply = supply

----------------------------------------------------------------------------
\* The properties.

\* C1: in both custody regimes a successful submit immediately followed by a
\* cancel of the returned id by the same sender succeeds, puts every balance,
\* the module's custody and every supply back to their values before the
\* submit, and leaves no transaction with that id in the pool.
C1_SubmitThenCancelIsNoOp ==
    \A req \in PoolRequests :
        LET s == AddToOutgoingPool(St, FALSE, req.sender, req.ethReceiver,
                                   req.amount, req.fee, "none")
            c == RemoveFromOutgoingPoolAndRefund(s.st, FALSE, s.id, req.sender, "none")
        IN (Running /\ ReadID(St) <= MaxTxId /\ s.err = NoErr) =>
               /\ c.err = NoErr
               /\ SameBank(c.st)
               /\ GetUnbatchedTxById(c.st, s.id).err = ErrUnknown

\* C2: from a store without a counter, the ids the successful submits return
\* start at 1 and strictly increase, so none is returned twice, whatever
\* cancels and failed submits come between them.
C2_IdsStrictlyIncreasingFromOne ==
    /\ issued # <<>> => issued[1] = 1
    /\ \A i, j \in 1..Len(issued) : i < j => issued[i] < issued[j]

\* Three ids were returned, the last one just now, and cancels or batch
\* removals have left one transaction in the pool.
C2_Witness ==
    /\ last.op = "submit" /\ last.err = NoErr
    /\ Len(issued) = 3
    /\ Cardinality(DOMAIN store) = 1

\* C3: allByContract(c) returns exactly the pending transactions whose fee
\* contract is c, each once, by fee descending and among equal fees by id
\* descending; all() returns every pending transaction once.
C3_ByContractInFeePriority ==
    /\ \A c \in Contracts :
           LET out == GetUnbatchedTransactionsByContract(St, c) IN
           /\ Range(out) = PendingOf(c)
           /\ Len(out) = Cardinality(PendingOf(c))
           /\ \A i, j \in 1..Len(out) : i < j => Before(out[i], out[j])
    /\ LET every == GetUnbatchedTransactions(St) IN
       /\ Range(every) = Pending
       /\ Len(every) = Cardinality(Pending)

\* allByContract returned three transactions: the one with the higher fee
\* first, then two of equal fee, the later one first.
C3_Witness ==
    /\ last.op = "allByContract"
    /\ last.out = <<2, 3, 1>>
    /\ \E c \in Contracts :
           /\ GetUnbatchedTransactionsByContract(St, c) # <<>>
           /\ Ids(GetUnbatchedTransactionsByContract(St, c)) = last.out
           /\ LET out == GetUnbatchedTransactionsByContract(St, c) IN
              /\ out[1].Erc20Fee.Amount > out[2].Erc20Fee.Amount
              /\ out[2].Erc20Fee.Amount = out[3].Erc20Fee.Amount

\* C4: for every contract c and every maxElements, 0 and values above the
\* number n of pending transactions of c included, batchFee(c, maxElements)
\* is the sum of the fees of the min(maxElements, n) transactions of c with
\* the highest fees, and 0 when none is counted.
C4_BatchFeeSumsTopMaxElements ==
    \A c \in Contracts, n \in MaxElements :
        LET r == GetBatchFeeByTokenType(St, c, n) IN
        /\ r.err = NoErr
        /\ r.TotalFees = TopFees(PendingOf(c), Min(n, Cardinality(PendingOf(c))))

\* The contracts with a pending transaction.
PendingContracts == { c \in Contracts : PendingOf(c) # {} }

\* C5: for every maxElements K >= 1, allBatchFees(K) has exactly one summary
\* for each contract with a pending transaction and none for another, and
\* the total of each is the sum of the min(K, n_c) highest fees pending for
\* the contract, which is what batchFee(c, K) returns.
C5_AllBatchFeesMatchesBatchFee ==
    \A n \in MaxElements \ {0} :
        LET m == createBatchFees(St, n) IN
        /\ DOMAIN m = PendingContracts
        /\ \A c \in DOMAIN m :
               /\ m[c] = TopFees(PendingOf(c), Min(n, Cardinality(PendingOf(c))))
               /\ m[c] = GetBatchFeeByTokenType(St, c, n).TotalFees
        /\ \A order \in MapOrders(DOMAIN m) :
               LET batchFees == GetAllBatchFees(St, n, order) IN
               /\ Len(batchFees) = Cardinality(PendingContracts)
               /\ Range(batchFees) = { [Token |-> c, TotalFees |-> m[c]] : c \in PendingContracts }

\* allBatchFees returned the summaries of two contracts, one of them with
\* less than the fees pending for its contract: a transaction was skipped.
C5_Witness ==
    /\ last.op = "allBatchFees"
    /\ Len(last.out) = 2
    /\ \E i \in 1..Len(last.out) :
           /\ Cardinality(PendingOf(last.out[i].Token)) = 2
           /\ last.out[i].TotalFees < TopFees(PendingOf(last.out[i].Token), 2)

\* C6: for a pool and a maxElements, the list allBatchFees returns is
\* strictly ascending by contract address and is the same list in whatever
\* order the map of the summaries is ranged over.
C6_AllBatchFeesSortedAnyOrder ==
    \A n \in MaxElements :
        LET orders == MapOrders(DOMAIN createBatchFees(St, n)) IN
        \A o1, o2 \in orders :
            LET batchFees == GetAllBatchFees(St, n, o1) IN
            /\ batchFees = GetAllBatchFees(St, n, o2)
            /\ \A i, j \in 1..Len(batchFees) :
                   i < j => batchFees[i].Token < batchFees[j].Token

\* allBatchFees returned the summaries of three contracts, which the range
\* over the map can visit in six orders.
C6_Witness ==
    /\ last.op = "allBatchFees"
    /\ Len(last.out) = 3
    /\ Cardinality(MapOrders(PendingContracts)) = 6

\* The ids of the pending transactions.
PendingIds == { tx.Id : tx \in Pending }

\* C7: a cancel of a pending transaction by a requester who is not its
\* stored sender returns an ErrInvalid fault (the unauthorized one when the
\* arguments are sound) and leaves the pool, the id counter and every bank
\* balance as they were: nothing is removed, minted or unlocked.
C7_CancelByOtherIsRefused ==
    \A a \in CancelArgs :
        (\E tx \in Pending : tx.Id = a.txId /\ tx.Sender # a.sender) =>
            LET r == RemoveFromOutgoingPoolAndRefund(St, a.ctxIsZero, a.txId,
                                                     a.sender, a.fault)
            IN /\ r.err \in {ErrNotSender, ErrInvalidArguments}
               /\ (~a.ctxIsZero /\ a.sender # 0) => r.err = ErrNotSender
               /\ r.st = St
               /\ r.calls = <<>>

\* A cancel was refused as unauthorized: the pool holds the transaction of
\* another account.
C7_Witness ==
    /\ last.op = "cancel" /\ last.err = ErrNotSender
    /\ \E tx, other \in Pending : tx.Sender # other.Sender
    /\ ~aborted

\* C8 as stated: for every id that is not in the pool and every non-empty
\* requester, cancel returns NotFound and changes neither the pool, the
\* counter nor a balance.
C8_CancelAbsentIsNotFound ==
    \A a \in CancelArgs :
        (~a.ctxIsZero /\ a.sender # 0 /\ a.txId \notin PendingIds) =>
            LET r == RemoveFromOutgoingPoolAndRefund(St, a.ctxIsZero, a.txId,
                                                     a.sender, a.fault)
            IN r.err = ErrUnknown /\ r.st = St

\* C8 amended: for every id that is not in the pool and every non-empty
\* requester, cancel returns NotFound when the id is at least 1 and the
\* ErrInvalid fault of the argument check when it is 0, and changes neither
\* the pool, the counter nor a balance; so a second cancel of a cancelled id
\* refunds nothing.
C8_CancelAbsentChangesNothing ==
    \A a \in CancelArgs :
        (~a.ctxIsZero /\ a.sender # 0 /\ a.txId \notin PendingIds) =>
            LET r == RemoveFromOutgoingPoolAndRefund(St, a.ctxIsZero, a.txId,
                                                     a.sender, a.fault)
            IN /\ r.err = IF a.txId < 1 THEN ErrInvalidArguments ELSE ErrUnknown
               /\ r.st = St
               /\ r.calls = <<>>

\* A cancel returned NotFound after three ids were issued and two of their
\* transactions had left the pool, while the third is pending.
C8_Witness ==
    /\ last.op = "cancel" /\ last.err = ErrUnknown
    /\ Len(issued) = 3
    /\ Cardinality(Pending) = 1
    /\ SumOver(module, Denoms) = 0

\* The defects the argument check of submit is to find in a request.
Defective(req) ==
    \/ req.ctxIsZero
    \/ req.sender = 0
    \/ req.ethReceiver.len # 42 \/ ~req.ethReceiver.hex
    \/ req.amount.amount < 0 \/ req.amount.denom = BadDenom
    \/ req.fee.amount < 0 \/ req.fee.denom = BadDenom
    \/ req.amount.denom # req.fee.denom

\* C9: a submit with a zero context, an empty sender, a receiver that is no
\* address, a malformed amount or fee, or an amount and a fee of different
\* denominations fails with ErrInvalid; no bank call is made, no id is
\* allocated and the pool is unchanged.
C9_InvalidSubmitHasNoEffect ==
    \A req \in Requests :
        Defective(req) =>
            LET r == AddToOutgoingPool(St, req.ctxIsZero, req.sender, req.ethReceiver,
                                       req.amount, req.fee, req.fault)
            IN /\ r.err = ErrInvalidArguments
               /\ r.id = 0
               /\ r.calls = <<>>
               /\ r.st = St

\* A submit was refused for its arguments while transactions are pending.
C9_Witness ==
    /\ last.op = "submit" /\ last.err = ErrInvalidArguments
    /\ last.calls = <<>>
    /\ Cardinality(Pending) = 2
    /\ lastTXPoolID = <<3>>

\* C10: a submit whose record has the composite key (fee contract, fee
\* amount, id) of a record already in the pool fails with ErrDuplicate
\* instead of returning the id, and the record in the pool stays as it is.
C10_DuplicateKeyFailsSubmit ==
    \A req \in PoolRequests :
        LET lookup == DenomToERC20Lookup(req.fee.denom)
            key == <<lookup.contract, req.fee.amount, ReadID(St)>>
            r == AddToOutgoingPool(St, req.ctxIsZero, req.sender, req.ethReceiver,
                                   req.amount, req.fee, req.fault)
        IN (/\ Running /\ ReadID(St) <= MaxTxId
            /\ lookup.err = NoErr
            /\ key \in DOMAIN store
            /\ balances[req.sender][req.fee.denom] >= req.amount.amount + req.fee.amount) =>
               /\ r.err = ErrDuplicate
               /\ r.st.store[key] = store[key]

\* C11: a submit of a bridge-originated asset whose Burn fails after its
\* Lock succeeded ends in a panic, with no id allocated and no record
\* inserted; a cancel of a bridge-originated transfer whose Mint fails
\* returns an ordinary error, not a panic.
C11_BurnPanicsMintReturns ==
    /\ \A req \in ValidRequests :
           (/\ req.fault = "burn"
            /\ ~DenomToERC20Lookup(req.amount.denom).isCosmosOriginated
            /\ balances[req.sender][req.amount.denom] >=
                   req.amount.amount + req.fee.amount) =>
               LET r == AddToOutgoingPool(St, req.ctxIsZero, req.sender,
                                          req.ethReceiver, req.amount, req.fee,
                                          req.fault)
               IN /\ r.err = Panic
                  /\ r.calls = <<"Lock", "Burn">>
                  /\ r.id = 0
                  /\ r.st.lastTXPoolID = lastTXPoolID
                  /\ r.st.store = store
    /\ \A a \in CancelArgs :
           (/\ ~a.ctxIsZero /\ a.fault = "mint"
            /\ \E tx \in Pending :
                   /\ tx.Id = a.txId /\ tx.Sender = a.sender
                   /\ ~ERC20ToDenomLookup(tx.Erc20Token.Contract).isCosmosOriginated) =>
               LET r == RemoveFromOutgoingPoolAndRefund(St, a.ctxIsZero, a.txId,
                                                        a.sender, a.fault)
               IN /\ r.err = "mint vouchers coins"
                  /\ r.err # Panic
                  /\ r.calls = <<"Remove", "Mint">>

\* A submit of a voucher panicked in Burn after its Lock, while a transfer
\* submitted before it is pending.
C11_Witness ==
    /\ last.op = "submit" /\ last.err = Panic
    /\ last.calls = <<"Lock", "Burn">>
    /\ aborted
    /\ Cardinality(Pending) = 1
    /\ lastTXPoolID = <<2>>

\* The record a successful submit of req with the id it returned is to
\* leave in the pool: the sender, destination, amount and fee of the
\* request, the amount and the fee against the contract the registry
\* resolved for the denomination.
RecordOf(req, id) ==
    LET contract == DenomToERC20Lookup(req.amount.denom).contract IN
    [Id |-> id,
     Sender |-> req.sender,
     DestAddress |-> req.ethReceiver,
     Erc20Token |-> [Contract |-> contract, Amount |-> req.amount.amount],
     Erc20Fee |-> [Contract |-> contract, Amount |-> req.fee.amount]]

\* Both lookups of the record tx succeed on st and return tx.
FoundBothWays(st, tx) ==
    /\ GetUnbatchedTxByFeeAndId(st, tx.Erc20Fee, tx.Id) = [tx |-> <<tx>>, err |-> NoErr]
    /\ GetUnbatchedTxById(st, tx.Id) = [tx |-> <<tx>>, err |-> NoErr]

\* Every pending record is found both ways, and so is the record of every
\* request a submit would accept in this state.
C12_LookupsAgree ==
    /\ \A tx \in Pending : FoundBothWays(St, tx)
    /\ \A req \in ValidRequests :
           LET r == AddToOutgoingPool(St, req.ctxIsZero, req.sender, req.ethReceiver,
                                      req.amount, req.fee, req.fault)
           IN r.err = NoErr =>
                  /\ RecordOf(req, r.id) \in { r.st.store[k] : k \in DOMAIN r.st.store }
                  /\ FoundBothWays(r.st, RecordOf(req, r.id))

\* A step leaves every record that stays in the pool as it was.
C12_RecordsKept ==
    \A k \in DOMAIN store \cap DOMAIN store' : store'[k] = store[k]

\* C12: for every transfer in the pool the lookup by fee and id and the
\* lookup by id both succeed and return the same record; the record a
\* submit inserts carries the sender, destination, amount and fee it was
\* given, against the resolved contract, and no step changes a record that
\* stays in the pool.
C12_RoundTripByFeeAndIdAndById ==
    []C12_LookupsAgree /\ [][C12_RecordsKept]_vars

\* A submit by the second account was accepted while two transfers of the
\* first account, with different fees, are pending.
C12_Witness ==
    /\ last.op = "submit" /\ last.err = NoErr /\ last.id = 3
    /\ Cardinality(Pending) = 3
    /\ \E tx \in Pending : tx.Id = 3 /\ tx.Sender = 2
    /\ \E a, b \in Pending : a.Sender = 1 /\ b.Sender = 1
                              /\ a.Erc20Fee.Amount # b.Erc20Fee.Amount

\* C13: a submit that passes the argument check and the contract lookup
\* first locks amount + fee; if the Lock fails it returns that error with
\* no Burn, the counter and the pool unchanged; after the Lock it burns the
\* total exactly when the asset is bridge-originated; only then does it
\* allocate the id and insert the record, so the pool gains a record only
\* after the custody steps completed.
C13_LockBurnAllocInsertInOrder ==
    \A req \in ValidRequests :
        LET r == AddToOutgoingPool(St, req.ctxIsZero, req.sender, req.ethReceiver,
                                   req.amount, req.fee, req.fault)
            d == req.amount.denom
            total == req.amount.amount + req.fee.amount
            native == DenomToERC20Lookup(d).isCosmosOriginated
            custody == IF native THEN <<"Lock">> ELSE <<"Lock", "Burn">>
        IN DenomToERC20Lookup(d).err = NoErr =>
           /\ r.calls \in {<<"Lock">>, custody, custody \o <<"AllocId", "Insert">>}
           /\ balances[req.sender][d] < total =>
                  /\ r.err = "insufficient funds"
                  /\ r.calls = <<"Lock">>
                  /\ r.st = St
           /\ balances[req.sender][d] >= total =>
                  /\ r.calls # <<"Lock">> \/ native
                  /\ r.st.balances[req.sender][d] = balances[req.sender][d] - total
           /\ r.st.store # store =>
                  /\ r.err = NoErr
                  /\ r.calls = custody \o <<"AllocId", "Insert">>
                  /\ r.st.lastTXPoolID = <<r.id + 1>>
                  /\ r.st.module[d] = module[d] + (IF native THEN total ELSE 0)
                  /\ r.st.supply[d] = supply[d] - (IF native THEN 0 ELSE total)
           /\ r.err = NoErr => r.st.store # store

\* A submit of a voucher went through Lock, Burn, id allocation and
\* insertion while a native-origin transfer, locked and not burned, is
\* pending.
C13_Witness ==
    /\ last.op = "submit" /\ last.err = NoErr
    /\ last.calls = <<"Lock", "Burn", "AllocId", "Insert">>
    /\ \E tx \in Pending : tx.Erc20Token.Contract = NativeContract
    /\ module[NativeDenom] = 2

\* The names the query steps leave in last.op.
QueryOps == {"byId", "byFeeAndId", "allByContract", "all", "iterate",
             "batchFee", "allBatchFees"}

C15_CancelErrorChangesNothing ==
    \A a \in CancelArgs :
        LET r == RemoveFromOutgoingPoolAndRefund(St, a.ctxIsZero, a.txId,
                                                 a.sender, a.fault)
        IN r.err # NoErr => r.st = St

\* C15 amended: a cancel that returns an error before it removes the record
\* (invalid arguments, NotFound, not the sender, inconsistent contracts, not
\* in the index) has changed nothing.  A cancel that returns an error after
\* the removal (the refund by Mint or Unlock failed) has left the id counter
\* and every account balance as they were, but the record of that id is out
\* of the pool, the others untouched: it is pending again only if the
\* enclosing transaction discards the writes of the failed call.
C15_CancelErrorAfterRemovalKeepsItRemoved ==
    \A a \in CancelArgs :
        LET r == RemoveFromOutgoingPoolAndRefund(St, a.ctxIsZero, a.txId,
                                                 a.sender, a.fault)
        IN r.err # NoErr =>
               /\ r.err # Panic
               /\ r.st.lastTXPoolID = lastTXPoolID
               /\ r.st.balances = balances
               /\ r.calls = <<>> => r.st = St
               /\ r.calls # <<>> =>
                      /\ r.calls[1] = "Remove"
                      /\ \E k \in DOMAIN store :
                             /\ store[k].Id = a.txId
                             /\ DOMAIN r.st.store = DOMAIN store \ {k}
                             /\ \A j \in DOMAIN r.st.store : r.st.store[j] = store[j]
                      /\ GetUnbatchedTxById(r.st, a.txId).err = ErrUnknown
                      /\ Abandons(r)

\* A cancel returned the error of a refused Mint: its record is gone from
\* the pool, another transfer is still pending.
C15_Witness ==
    /\ last.op = "cancel" /\ last.err = "mint vouchers coins"
    /\ last.calls = <<"Remove", "Mint">>
    /\ aborted
    /\ Len(issued) = 2
    /\ Cardinality(Pending) = 1

\* The denomination a pending transfer was submitted in.
DenomOf(tx) == ERC20ToDenomLookup(tx.Erc20Token.Contract).denom

\* The sum of amount + fee over the transfers txs.
RECURSIVE SumTotals(_)
SumTotals(txs) ==
    IF txs = {} THEN 0
    ELSE LET tx == CHOOSE t \in txs : TRUE
         IN tx.Erc20Token.Amount + tx.Erc20Fee.Amount + SumTotals(txs \ {tx})

\* What the pending transfers of denomination d took from their senders.
Custody(d) == SumTotals({ tx \in Pending : DenomOf(tx) = d })

\* C16: after any sequence of completed submits and cancels from the empty
\* pool, without batching, the module holds of every native-origin
\* denomination exactly the amounts and fees of its pending transfers, and
\* of every bridge-originated denomination nothing, while the supply of
\* that denomination is lower than at the start by exactly the amounts and
\* fees of its pending transfers.
C16_CustodyMatchesPending ==
    Running =>
        \A d \in Denoms :
            IF DenomToERC20Lookup(d).isCosmosOriginated
            THEN /\ module[d] = Custody(d)
                 /\ supply[d] = Genesis.supply[d]
            ELSE /\ module[d] = 0
                 /\ supply[d] = Genesis.supply[d] - Custody(d)

\* A voucher transfer was cancelled and refunded while a native-origin
\* transfer and a voucher transfer are pending.
C16_Witness ==
    /\ Running
    /\ last.op = "cancel" /\ last.err = NoErr
    /\ last.calls = <<"Remove", "Mint", "Unlock">>
    /\ module[NativeDenom] = 2
    /\ \E tx \in Pending : DenomOf(tx) = GravityDenom(1)

\* C17: a successful cancel of id takes exactly the record of that id out
\* of the pool: every other pending record is still there with the same
\* content, the iteration visits them in the same relative order, and the
\* id counter is unchanged.
C17_CancelRemovesExactlyOne ==
    \A a \in CancelArgs :
        LET r == RemoveFromOutgoingPoolAndRefund(St, a.ctxIsZero, a.txId,
                                                 a.sender, a.fault)
            others(tx) == tx.Id # a.txId
        IN r.err = NoErr =>
               /\ \E k \in DOMAIN store :
                      /\ store[k].Id = a.txId
                      /\ DOMAIN r.st.store = DOMAIN store \ {k}
               /\ \A j \in DOMAIN r.st.store : r.st.store[j] = store[j]
               /\ GetUnbatchedTransactions(r.st) =
                      SelectSeq(GetUnbatchedTransactions(St), others)
               /\ \A c \in Contracts :
                      GetUnbatchedTransactionsByContract(r.st, c) =
                          SelectSeq(GetUnbatchedTransactionsByContract(St, c), others)
               /\ r.st.lastTXPoolID = lastTXPoolID

\* A cancel succeeded and left two of three transfers pending, both with
\* the fee the cancelled one had.
C17_Witness ==
    /\ last.op = "cancel" /\ last.err = NoErr
    /\ Len(issued) = 3
    /\ Cardinality(Pending) = 2
    /\ \A tx \in Pending : tx.Erc20Fee = NewSDKIntERC20Token(1, 1)
    /\ balances[1][GravityDenom(1)] + balances[2][GravityDenom(1)] = 3

\* C18: the persisted counter, read as 1 when absent, is 1 plus the number
\* of submits that allocated an id; a successful submit returns the counter
\* and advances it by exactly 1; a submit that fails at the argument check,
\* at the contract lookup or at the Lock leaves it as it was; the ids of the
\* pending records are pairwise distinct, at least 1 and below the counter.
C18_CounterCountsAllocations ==
    /\ ReadID(St) = 1 + Len(issued)
    /\ \A tx \in Pending : tx.Id >= 1 /\ tx.Id < ReadID(St)
    /\ \A tx, other \in Pending : tx # other => tx.Id # other.Id
    /\ \A req \in Requests :
           LET r == AddToOutgoingPool(St, req.ctxIsZero, req.sender, req.ethReceiver,
                                      req.amount, req.fee, req.fault)
           IN /\ r.err = NoErr =>
                     /\ r.id = ReadID(St)
                     /\ ReadID(r.st) = ReadID(St) + 1
                     /\ "AllocId" \in Range(r.calls)
              /\ r.err # NoErr =>
                     /\ r.st.lastTXPoolID = lastTXPoolID
                     /\ "AllocId" \notin Range(r.calls)
              /\ (\/ Defective(req)
                  \/ DenomToERC20Lookup(req.amount.denom).err # NoErr
                  \/ balances[req.sender][req.amount.denom] <
                         req.amount.amount + req.fee.amount) =>
                     r.err \notin {NoErr, Panic}

\* A submit failed at the Lock after two ids were allocated, one of them
\* cancelled or batched since.
C18_Witness ==
    /\ last.op = "submit" /\ last.err = "insufficient funds"
    /\ last.calls = <<"Lock">>
    /\ lastTXPoolID = <<3>>
    /\ Len(issued) = 2
    /\ Cardinality(Pending) = 1

\* C19: every record in the pool, in every state reached by submits and
\* cancels, has the same contract in its token and in its fee, and a submit
\* inserts its record with both equal to the contract the registry
\* resolved for the denomination submitted.
C19_TokenAndFeeContractAgree ==
    /\ \A k \in DOMAIN store :
           /\ store[k].Erc20Token.Contract = store[k].Erc20Fee.Contract
           /\ store[k].Erc20Fee.Contract \in Contracts
           /\ k = GetOutgoingTxPoolKey(store[k].Erc20Fee, store[k].Id)
    /\ \A req \in ValidRequests :
           LET r == AddToOutgoingPool(St, req.ctxIsZero, req.sender, req.ethReceiver,
                                      req.amount, req.fee, req.fault)
               resolved == DenomToERC20Lookup(req.amount.denom).contract
           IN r.err = NoErr =>
                  \E k \in DOMAIN r.st.store \ DOMAIN store :
                      LET tx == r.st.store[k] IN
                      /\ tx.Id = r.id
                      /\ tx.Erc20Token.Contract = resolved
                      /\ tx.Erc20Fee.Contract = resolved
                      /\ DenomOf(tx) = req.amount.denom

\* Transfers of two voucher denominations and of the native-origin
\* denomination are pending, the last one just submitted.
C19_Witness ==
    /\ last.op = "submit" /\ last.err = NoErr
    /\ { tx.Erc20Fee.Contract : tx \in Pending } = {1, 2, NativeContract}

\* The faults that tell of a corrupted pool.
CorruptionFaults ==
    {ErrDuplicate,
     "ErrInvalid: inconsistent tokens to cancel",
     "ErrInvalid: not in unbatched index",
     "ErrInvalid: not fully removed from the pool"}

\* C20: from the empty pool with no persisted counter, after any sequence
\* of submits, cancels and batch removals, no submit meets a Duplicate
\* collision when it inserts its record, no cancel meets differing token
\* and fee contracts, a record missing from the index, or a key still
\* there after its removal, and no batch fee query panics on a fee of
\* another contract.
C20_CorruptionFaultsUnreachable ==
    /\ \A req \in ValidRequests :
           LET r == AddToOutgoingPool(St, req.ctxIsZero, req.sender, req.ethReceiver,
                                      req.amount, req.fee, req.fault)
           IN /\ r.err \notin CorruptionFaults
              /\ r.err = NoErr =>
                     LET tx == RecordOf(req, r.id) IN
                     /\ addUnbatchedTX(St, tx).err = NoErr
                     /\ DOMAIN r.st.store =
                            DOMAIN store \cup {GetOutgoingTxPoolKey(tx.Erc20Fee, tx.Id)}
                     /\ Cardinality(DOMAIN r.st.store) = Cardinality(DOMAIN store) + 1
    /\ \A a \in CancelArgs :
           RemoveFromOutgoingPoolAndRefund(St, a.ctxIsZero, a.txId, a.sender,
                                           a.fault).err \notin CorruptionFaults \cup {Panic}
    /\ \A c \in Contracts, n \in MaxElements :
           GetBatchFeeByTokenType(St, c, n).err = NoErr

\* A batch took a transfer out of the pool after three submits of the first
\* voucher and a refunded cancel of one of them; the third is pending.
C20_Witness ==
    /\ last.op = "batch"
    /\ Len(issued) = 3
    /\ Cardinality(Pending) = 1
    /\ supply[GravityDenom(1)] = Genesis.supply[GravityDenom(1)] - 4
    /\ supply[GravityDenom(2)] = Genesis.supply[GravityDenom(2)]
    /\ module[NativeDenom] = 0

\* tx comes before other in the iteration of the whole pool: by contract
\* descending, then in fee priority.
PoolBefore(tx, other) ==
    \/ tx.Erc20Fee.Contract > other.Erc20Fee.Contract
    \/ tx.Erc20Fee.Contract = other.Erc20Fee.Contract /\ Before(tx, other)

\* visited is a start of the entries in their iteration order: no entry
\* twice, each before the next, and every entry left out after all of them.
IsStartOf(visited, entries) ==
    /\ Range(visited) \subseteq entries
    /\ \A i, j \in 1..Len(visited) : i < j => PoolBefore(visited[i], visited[j])
    /\ \A tx \in entries \ Range(visited) :
           \A i \in 1..Len(visited) : PoolBefore(visited[i], tx)

\* The prefixes the queries iterate under, each with the entries under it.
Prefixes ==
    { [key |-> OutgoingTXPoolKey, entries |-> Pending] } \cup
    { [key |-> GetOutgoingTxPoolContractPrefix(c), entries |-> PendingOf(c)] :
      c \in Contracts }

\* C21: the iteration under a prefix invokes the visitor on the entries
\* under it in fee-priority order and on none after the one it answers
\* stop for: the visitor of byId is invoked up to the first entry of the id
\* and no further, and a visitor that never answers stop is invoked on
\* every entry under the prefix exactly once.
C21_IterateStopsAtFirstStop ==
    \A p \in Prefixes :
        /\ \A txID \in TxIds :
               LET v == IterateUnbatchedTransactions(store, p.key,
                            [fn |-> "GetUnbatchedTxById", txID |-> txID], <<>>).visited
               IN /\ IsStartOf(v, p.entries)
                  /\ \A i \in 1..(Len(v) - 1) : v[i].Id # txID
                  /\ IF \E tx \in p.entries : tx.Id = txID
                     THEN v # <<>> /\ v[Len(v)].Id = txID
                     ELSE Range(v) = p.entries
        /\ LET v == IterateUnbatchedTransactions(store, p.key,
                        [fn |-> "collectUnbatchedTransactions"], <<>>).visited
           IN /\ IsStartOf(v, p.entries)
              /\ Range(v) = p.entries
              /\ Len(v) = Cardinality(p.entries)
    /\ \A txID \in TxIds :
           LET v == ScanById(St, txID).visited
               found == GetUnbatchedTxById(St, txID)
           IN IF \E tx \in Pending : tx.Id = txID
              THEN found.err = NoErr /\ found.tx = <<v[Len(v)]>>
              ELSE found.err = ErrUnknown /\ Len(v) = Cardinality(Pending)

\* An iteration under a contract's prefix stopped at the second of the
\* three entries under it.
C21_Witness ==
    /\ last.op = "iterate" /\ Len(last.out) = 2
    /\ Cardinality(Pending) = 3
    /\ \A tx, other \in Pending : tx.Erc20Fee.Contract = other.Erc20Fee.Contract

\* C22: adding two tokens of one valid contract returns a token of that
\* contract whose amount is the arithmetic sum of the two amounts, for all
\* amounts that are not negative, a sum beyond the 64-bit range included;
\* adding tokens of different contracts panics instead of returning a value.
C22_AddReturnsExactSum ==
    last.op = "Add" =>
        LET e == last.out[1]
            o == last.out[2]
            token == last.out[3]
        IN /\ (ValidateEthAddress(e.Contract) = NoErr /\ e.Contract = o.Contract) =>
                  /\ last.err = NoErr
                  /\ token = <<[Amount |-> e.Amount + o.Amount, Contract |-> e.Contract]>>
           /\ (/\ ValidateEthAddress(e.Contract) = NoErr
               /\ ValidateEthAddress(o.Contract) = NoErr
               /\ e.Contract # o.Contract) =>
                  /\ last.err = "inconsistent contract addresses"
                  /\ token = <<>>

====
